---- MODULE Spec2Model ----
(***************************************************************************)
(* Model of the PremRunner model import pipeline: the HTTP handlers that   *)
(* create, delete and query model records (api/v1.ts) and the background   *)
(* import task importModelToOllama with its helpers (api/import-model.ts). *)
(*                                                                         *)
(* The filesystem is one map from absolute paths to file contents plus a   *)
(* set of directories.  A path is a sequence of names whose first element  *)
(* is the root it hangs from: "data" for config.DATA_PATH and cwdRoot for  *)
(* process.cwd().                                                          *)
(*                                                                         *)
(* Steps.  The server is one event loop.  A step of the model is the code  *)
(* that runs between two completions of asynchronous I/O: the exit of a    *)
(* spawned process (unzip, curl, rm, ls, find, ollama), a file read or a   *)
(* file write.  The database driver is drizzle-orm/bun-sqlite             *)
(* (db/index.ts), which is synchronous: an awaited query takes effect when *)
(* it is awaited and its continuation is a microtask, which runs before    *)
(* the event loop handles any other I/O completion, so an awaited query    *)
(* does not end a step.  Consecutive read-only listings (ls, find, a file  *)
(* read) are taken together at the step that uses their result.           *)
(* External processes are black boxes whose exit status is chosen          *)
(* nondeterministically at the step that observes it.                      *)
(***************************************************************************)
EXTENDS Integers, Sequences, FiniteSets, TLC

(***************************************************************************)
(* Bounds                                                                  *)
(***************************************************************************)
NumModelIds == 2
MaxTasks == 2
MaxDeletes == 1
MaxChunks == 2
MaxChunkLen == 1

IdNames == <<"m1", "m2", "m3", "m4">>
ModelIds == {IdNames[i] : i \in 1..NumModelIds}

\* Ids whose chunked upload has been assembled under the cwd at the start
\* (randomUUID of /chunked-upload/start); the others are left to nanoid.
ChunkedIds == {IdNames[i] : i \in 1..(NumModelIds - 1)}

\* Display names a caller may give (sequences of characters).
Names == {<<"Q", "w">>, <<"q", "!">>}

\* The base model every adapter archive of the model declares.
BaseName == "b"

(***************************************************************************)
(* File contents and trees                                                 *)
(***************************************************************************)
\* Content of an ordinary file.  json/base describe an adapter_config.json
\* (json: the file parses; base: the declared base_model_name_or_path as a
\* sequence of tokens, "/" being the separator); from/adapter describe a
\* Modelfile (the FROM and ADAPTER directives).
Plain == [json |-> FALSE, base |-> <<>>, from |-> <<>>, adapter |-> <<>>]
AdapterCfg(parses, declared) == [json |-> parses, base |-> declared, from |-> <<>>, adapter |-> <<>>]
ModelfileContent(fromPath, adapterPath) == [json |-> FALSE, base |-> <<>>, from |-> fromPath, adapter |-> adapterPath]

\* What an uploaded archive may unpack to (relative path -> content).
FullTree == (<<"config.json">> :> Plain) @@ (<<"model.safetensors">> :> Plain)
LoraTree == (<<"adapter_config.json">> :> AdapterCfg(TRUE, <<"/", "x", "/", BaseName>>))
            @@ (<<"adapter_model.safetensors">> :> Plain)
LoraNoBaseTree == (<<"wrap", "adapter_config.json">> :> AdapterCfg(TRUE, <<>>))
                  @@ (<<"wrap", "adapter_model.safetensors">> :> Plain)
ArchiveTrees == {FullTree, LoraTree, LoraNoBaseTree}

\* What the base-model archive unpacks to.
BaseTree == (<<"config.json">> :> Plain) @@ (<<"model.safetensors">> :> Plain)

SafetensorsNames == {"model.safetensors", "adapter_model.safetensors"}
BinNames == {"pytorch_model.bin"}
GgufNames == {"model.gguf"}
HiddenNames == {".cache"}

(***************************************************************************)
(* State                                                                   *)
(***************************************************************************)
VARIABLES
  cwdRoot,     \* root of process.cwd(): "data" when DATA_PATH is the cwd
  files,       \* absolute path -> content, the regular files on disk
  dirs,        \* absolute paths of the directories on disk
  extracted,   \* directories into which some unzip run has completed
  records,     \* the models table: model id -> row (present or not)
  ollama,      \* aliases registered in the external runtime
  usedIds,     \* model ids handed out so far (nanoid / randomUUID)
  tasks,       \* the import tasks started so far, in order of their request
  dels,        \* the DELETE /models/:id requests received so far
  upl,         \* the chunked upload session (api/chunked-upload.ts)
  ext          \* one run of the multi-strategy extractZip (api/import-model.ts)

\* The state of the components that are studied on their own.
aux == <<upl, ext>>

\* The state of the import pipeline.
pipeline == <<cwdRoot, files, dirs, extracted, records, ollama, usedIds, tasks, dels>>

vars == <<pipeline, aux>>

(***************************************************************************)
(* Paths and filesystem primitives                                         *)
(***************************************************************************)
DataRoot == "data"
IdIndex(id) == CHOOSE i \in 1..Len(IdNames) : IdNames[i] = id
ZipNames == <<"m1.zip", "m2.zip", "m3.zip", "m4.zip">>
ModelfileDirNames == <<"m1_modelfile", "m2_modelfile", "m3_modelfile", "m4_modelfile">>
BaseZipName == "b.zip"

UploadZip(root, id) == <<root, "uploads", ZipNames[IdIndex(id)]>>
ExtractDirOf(id) == <<DataRoot, "models", id>>
ModelfileDirOf(id) == <<DataRoot, "models", ModelfileDirNames[IdIndex(id)]>>
BaseModelsDir == <<DataRoot, "base_models">>
BaseDirOf(b) == <<DataRoot, "base_models", b>>
BaseZipOf(b) == <<DataRoot, "base_models", BaseZipName>>

Join(p, name) == Append(p, name)
Dirname(p) == SubSeq(p, 1, Len(p) - 1)
IsPrefix(p, q) == Len(p) <= Len(q) /\ SubSeq(q, 1, Len(p)) = p
Restrict(f, S) == [x \in S |-> f[x]]

ExistsSync(p) == p \in dirs \/ p \in DOMAIN files

RemovesEveryDir(p) == {}

RemovesNothing(p) == dirs

\* rm -rf p / rm -f p: everything at or below p is gone.
FilesAfterRm(p) == Restrict(files, {q \in DOMAIN files : ~IsPrefix(p, q)})
DirsAfterRm(p) == {d \in dirs : ~IsPrefix(p, d)}

\* unzip -o -q archive -d target: every entry of the tree is written below
\* target, overwriting what is there, and its parent directories are made.
UnzipPaths(target, tree) == {target \o r : r \in DOMAIN tree}
FilesAfterUnzip(target, tree) ==
  [p \in (DOMAIN files) \cup UnzipPaths(target, tree) |->
     IF p \in UnzipPaths(target, tree)
       THEN tree[SubSeq(p, Len(target) + 1, Len(p))]
       ELSE files[p]]
DirsAfterUnzip(target, tree) ==
  dirs \cup UNION {{SubSeq(p, 1, n) : n \in Len(target)..(Len(p) - 1)} : p \in UnzipPaths(target, tree)}

\* ls -d dir/*/ : the non-hidden directories directly below dir.
\* find dir -type d -maxdepth 1, dir itself filtered out: all of them.
FindSubdirs(dir) == {d \in dirs : Len(d) = Len(dir) + 1 /\ IsPrefix(dir, d)}
ListsHidden(dir) == FindSubdirs(dir)

\* ls -d dir/*/ : the glob does not match names that begin with a dot.
LsSubdirs(dir) == {d \in FindSubdirs(dir) : d[Len(d)] \notin HiddenNames}
TheOne(S) == CHOOSE x \in S : TRUE

(***************************************************************************)
(* Names and aliases                                                       *)
(***************************************************************************)
UpperToLower == ("Q" :> "q") @@ ("W" :> "w")
LowerAlnum == {"q", "w", "m", "o", "d", "e", "l", "1"}
NonAscii == {"U+00E9"}
Whitespace == {" "}
FallbackName == <<"m", "o", "d", "e", "l", "_", "1">>

ToLowerChar(c) == IF c \in DOMAIN UpperToLower THEN UpperToLower[c] ELSE c

\* name.toLowerCase().replace(/[^a-z0-9]/g, "-")
SanitizeAlias(name) ==
  [i \in 1..Len(name) |-> IF ToLowerChar(name[i]) \in LowerAlnum THEN ToLowerChar(name[i]) ELSE "-"]

RECURSIVE TrimLeft(_)
TrimLeft(s) == IF s # <<>> /\ Head(s) \in Whitespace THEN TrimLeft(Tail(s)) ELSE s
RECURSIVE TrimRight(_)
TrimRight(s) == IF s # <<>> /\ s[Len(s)] \in Whitespace THEN TrimRight(SubSeq(s, 1, Len(s) - 1)) ELSE s
IsAscii(c) == c \notin NonAscii

\* name.replace(/[^\x00-\x7F]/g, "").trim(), "model_<timestamp>" when empty
CleanName(name) ==
  LET t == TrimRight(TrimLeft(SelectSeq(name, IsAscii)))
  IN IF t = <<>> THEN FallbackName ELSE t

(***************************************************************************)
(* detectModelType                                                         *)
(***************************************************************************)
FirstSegment(tokens) == IF tokens = <<>> THEN "" ELSE tokens[1]

\* baseModelPath.split('/').pop(): the tokens after the last "/".  A segment
\* is one token, and "" stands for the empty string.
LastSegment(tokens) ==
  LET slashes == {i \in 1..Len(tokens) : tokens[i] = "/"}
      last == IF slashes = {} THEN 0 ELSE CHOOSE i \in slashes : \A j \in slashes : j <= i
      seg == SubSeq(tokens, last + 1, Len(tokens))
  IN IF seg = <<>> THEN "" ELSE seg[1]

\* The directory detectModelType and the orchestrator look into: the single
\* subdirectory when ls -d lists exactly one, else the directory itself.
CheckDir(extractDir) ==
  IF Cardinality(LsSubdirs(extractDir)) = 1 THEN TheOne(LsSubdirs(extractDir)) ELSE extractDir

\* baseModel = "" stands for a missing (undefined or empty) base model.
detectModelType(extractDir) ==
  LET adapterConfigPath == Join(CheckDir(extractDir), "adapter_config.json")
  IN IF ExistsSync(adapterConfigPath)
       THEN IF adapterConfigPath \in DOMAIN files
                 /\ files[adapterConfigPath].json
                 /\ files[adapterConfigPath].base # <<>>
              THEN [type |-> "lora", baseModel |-> LastSegment(files[adapterConfigPath].base)]
              ELSE [type |-> "lora", baseModel |-> ""]
       ELSE [type |-> "full", baseModel |-> ""]

(***************************************************************************)
(* createModelfile                                                         *)
(***************************************************************************)
WeightNames == SafetensorsNames \cup BinNames \cup GgufNames

\* find p -type f -name *.safetensors -o -name *.bin -o -name *.gguf
\* (-type f binds to the first -name only).
FindModelFiles(p) ==
  {f \in DOMAIN files : IsPrefix(p, f) /\ f[Len(f)] \in WeightNames}
  \cup {d \in dirs : IsPrefix(p, d) /\ d[Len(d)] \in BinNames \cup GgufNames}

\* find prints a directory before its entries and siblings in directory
\* order: any match without a matching ancestor can be the first line.
FirstModelFiles(p) ==
  {f \in FindModelFiles(p) : \A g \in FindModelFiles(p) : IsPrefix(g, f) => g = f}

IncludesSafetensors(f) == \E i \in 1..Len(f) : f[i] \in SafetensorsNames

\* The FROM paths the full branch can settle on.
FullModelPaths(modelPath) ==
  LET sub == FindSubdirs(modelPath)
      processed == IF Cardinality(sub) = 1 THEN TheOne(sub) ELSE modelPath
  IN IF \E f \in FindModelFiles(processed) : IncludesSafetensors(f)
       THEN {Dirname(f) : f \in FirstModelFiles(processed)}
       ELSE {processed}

NothingToCopy(modelPath, adapterPath) == <<>>

\* The lora branch: the file to copy into the adapter directory (<<>> when
\* none) and the FROM path.
LoraConfigSource(modelPath, adapterPath) ==
  LET sub == FindSubdirs(modelPath)
  IN IF ExistsSync(Join(adapterPath, "config.json")) THEN <<>>
     ELSE IF ExistsSync(Join(modelPath, "config.json")) THEN Join(modelPath, "config.json")
     ELSE IF Cardinality(sub) = 1 /\ ExistsSync(Join(TheOne(sub), "config.json"))
       THEN Join(TheOne(sub), "config.json")
     ELSE <<>>
LoraFromPath(modelPath) ==
  IF Cardinality(FindSubdirs(modelPath)) = 1 THEN TheOne(FindSubdirs(modelPath)) ELSE modelPath

(***************************************************************************)
(* The models table                                                        *)
(***************************************************************************)
NoRow == [present |-> FALSE, name |-> <<>>, alias |-> <<>>, downloaded |-> FALSE]

InsertedReady == TRUE

\* downloaded: false in the values both request handlers insert
InitialDownloaded == FALSE

InsertedRow(name, alias) ==
  [present |-> TRUE, name |-> name, alias |-> alias, downloaded |-> InitialDownloaded]

UpdateSkipped(id, v) == records

\* db.update(models).set({ downloaded: v }).where(eq(models.id, id))
UpdateDownloaded(id, v) ==
  IF records[id].present THEN [records EXCEPT ![id].downloaded = v] ELSE records

\* status: model[0].downloaded ? "ready" : "importing"
StatusOf(row) == IF row.downloaded THEN "ready" ELSE "importing"

\* GET /models/:id/status
StatusResponse(id) ==
  IF ~records[id].present
    THEN [code |-> 404, imported |-> FALSE, status |-> "none"]
    ELSE [code |-> 200, imported |-> records[id].downloaded, status |-> StatusOf(records[id])]

(***************************************************************************)
(* Import tasks                                                            *)
(***************************************************************************)
NewTask(id, alias, zip) ==
  [id |-> id, alias |-> alias, zip |-> zip, pc |-> "validate", acked |-> TRUE,
   site |-> "none",
   mtype |-> "none", base |-> "", adapterPath |-> <<>>, basePath |-> <<>>,
   cache |-> "none", hitOn |-> "none",
   stages |-> <<>>, creates |-> 0, exit |-> -1, created |-> Plain,
   failStage |-> "none", rmFailed |-> FALSE]

TaskIds == 1..Len(tasks)

AnyExitSucceeds(exitCode) == TRUE

\* if (exitCode !== 0) throw, in runOllamaCreate
CreateSucceeded(exitCode) == exitCode = 0

AnyBaseModel(modelType) == TRUE

\* if (modelType.baseModel), in importModelToOllama
BaseModelSpecified(modelType) == modelType.baseModel # ""

NeverCached(b) == FALSE

\* if (existsSync(extractPath)) return extractPath, in downloadBaseModel
CacheHit(b) == ExistsSync(BaseDirOf(b))

\* What a cache hit on b finds: a directory some import is still unpacking
\* into, the result of a completed unzip, or what a failed one left.
HitOn(b) ==
  IF \E u \in TaskIds : tasks[u].pc = "baseUnzip" /\ tasks[u].base = b THEN "extracting"
  ELSE IF BaseDirOf(b) \in extracted THEN "complete"
  ELSE "leftover"

\* The outer catch of importModelToOllama sets downloaded: false and
\* rethrows; the catch handler the request attached sets it once more.
Thrown(task, stage) == [task EXCEPT !.pc = "failed", !.failStage = stage]

\* The catch blocks around extractZip and downloadBaseModel: rm -rf the
\* extraction directory when it exists, then rethrow to the outer catch.
AfterExtractFailure(task, site, stage) ==
  IF ExistsSync(ExtractDirOf(task.id))
    THEN [task EXCEPT !.pc = "rmExtract", !.site = site, !.failStage = stage]
    ELSE Thrown(task, stage)

\* The catch block around runOllamaCreate.
AfterCreateFailure(task) ==
  IF ExistsSync(ExtractDirOf(task.id))
    THEN [task EXCEPT !.pc = "rmExtract", !.site = "create", !.failStage = "create"]
    ELSE IF ExistsSync(ModelfileDirOf(task.id))
      THEN [task EXCEPT !.pc = "rmModelfile", !.failStage = "create"]
      ELSE Thrown(task, "create")

\* importModelToOllama up to its first await: the archive must exist, and
\* validateZipFile spawns unzip -l.
Started(task) ==
  IF ExistsSync(task.zip) THEN task ELSE Thrown(task, "zip")

\* The task takes its next position; a task that threw has the row's
\* downloaded set to false by the two catch handlers.
Continue(t, r) ==
  /\ tasks' = [tasks EXCEPT ![t] = r]
  /\ records' = IF r.pc = "failed" THEN UpdateDownloaded(r.id, FALSE) ELSE records

\* The request handler: insert the row, then call importModelToOllama,
\* which runs up to its first await (and may already have thrown).
Requested(task, name) ==
  /\ tasks' = Append(tasks, task)
  /\ records' = [records EXCEPT ![task.id] =
       IF task.pc = "failed"
         THEN [InsertedRow(name, task.alias) EXCEPT !.downloaded = FALSE]
         ELSE InsertedRow(name, task.alias)]

\* POST /models/upload once the archive is written: the row is inserted,
\* importModelToOllama is called and runs up to its first await, the catch
\* handler is attached and "import started" is answered.
UploadRequest(m, name) ==
  /\ Len(tasks) < MaxTasks
  /\ m \in ModelIds \ usedIds
  /\ usedIds' = usedIds \cup {m}
  /\ files' = (UploadZip(DataRoot, m) :> Plain) @@ files
  /\ Requested(NewTask(m, SanitizeAlias(CleanName(name)), UploadZip(DataRoot, m)), CleanName(name))
  /\ UNCHANGED <<aux, cwdRoot, dirs, extracted, ollama, dels>>

\* POST /models/import with the modelId and path /chunked-upload/complete
\* answered; the client sends it once for each assembled archive.
ImportRequest(m, name) ==
  /\ Len(tasks) < MaxTasks
  /\ m \in ChunkedIds
  /\ \A u \in TaskIds : tasks[u].id # m
  /\ Requested(Started(NewTask(m, SanitizeAlias(name), UploadZip(cwdRoot, m))), name)
  /\ UNCHANGED <<aux, cwdRoot, files, dirs, extracted, ollama, usedIds, dels>>

\* validateZipFile: unzip -l has exited; extractZip then makes the
\* extraction directory and spawns unzip.
ValidateDone(t) ==
  /\ tasks[t].pc = "validate"
  /\ \E valid \in BOOLEAN :
       IF valid
         THEN /\ dirs' = dirs \cup {ExtractDirOf(tasks[t].id)}
              /\ Continue(t, [tasks[t] EXCEPT !.pc = "unzip"])
         ELSE /\ dirs' = dirs
              /\ Continue(t, AfterExtractFailure(tasks[t], "extract", "extract"))
  /\ UNCHANGED <<aux, cwdRoot, files, extracted, ollama, usedIds, dels>>

\* extractZip: unzip has exited.  A directory removed while unzip ran is
\* not made again.
UnzipDone(t) ==
  /\ tasks[t].pc = "unzip"
  /\ \/ /\ \E tree \in ArchiveTrees :
             IF ExtractDirOf(tasks[t].id) \in dirs
               THEN /\ files' = FilesAfterUnzip(ExtractDirOf(tasks[t].id), tree)
                    /\ dirs' = DirsAfterUnzip(ExtractDirOf(tasks[t].id), tree)
                    /\ extracted' = extracted \cup {ExtractDirOf(tasks[t].id)}
               ELSE UNCHANGED <<files, dirs, extracted>>
        /\ Continue(t, [tasks[t] EXCEPT !.pc = "detect", !.stages = Append(@, "extract")])
     \/ /\ Continue(t, AfterExtractFailure(tasks[t], "extract", "extract"))
        /\ UNCHANGED <<files, dirs, extracted>>
  /\ UNCHANGED <<aux, cwdRoot, ollama, usedIds, dels>>

\* createModelfile makes the output directory before its first await in
\* the lora branch.
WithModelfileDir(id, ds) == ds \cup {ModelfileDirOf(id)}

\* detectModelType, the adapter directory lookup and, for a lora model,
\* downloadBaseModel up to its first await (the cache check).
Detect(t) ==
  /\ tasks[t].pc = "detect"
  /\ LET mt == detectModelType(ExtractDirOf(tasks[t].id))
         det == [tasks[t] EXCEPT !.mtype = mt.type, !.base = mt.baseModel,
                                 !.stages = Append(@, "detect")]
         lora == [det EXCEPT !.adapterPath = CheckDir(ExtractDirOf(tasks[t].id))]
     IN IF mt.type = "lora"
          THEN IF BaseModelSpecified(mt)
                 THEN IF CacheHit(mt.baseModel)
                        THEN /\ dirs' = WithModelfileDir(tasks[t].id, dirs)
                             /\ Continue(t, [lora EXCEPT !.basePath = BaseDirOf(mt.baseModel),
                                                         !.cache = "hit",
                                                         !.hitOn = HitOn(mt.baseModel),
                                                         !.stages = Append(@, "resolve"),
                                                         !.pc = "build"])
                        ELSE /\ dirs' = dirs \cup {BaseModelsDir}
                             /\ Continue(t, [lora EXCEPT !.cache = "miss", !.pc = "curl"])
                 ELSE /\ dirs' = dirs
                      /\ Continue(t, Thrown(lora, "unresolved"))
          ELSE /\ dirs' = dirs
               /\ Continue(t, [det EXCEPT !.basePath = ExtractDirOf(tasks[t].id), !.pc = "build"])
  /\ UNCHANGED <<aux, cwdRoot, files, extracted, ollama, usedIds, dels>>

\* downloadBaseModel: curl has exited; on success extractZip starts with
\* validateZipFile.
CurlDone(t) ==
  /\ tasks[t].pc = "curl"
  /\ \/ /\ files' = (BaseZipOf(tasks[t].base) :> Plain) @@ files
        /\ Continue(t, [tasks[t] EXCEPT !.pc = "baseValidate"])
     \/ /\ files' = files
        /\ Continue(t, AfterExtractFailure(tasks[t], "download", "resolve"))
  /\ UNCHANGED <<aux, cwdRoot, dirs, extracted, ollama, usedIds, dels>>

\* validateZipFile on the base archive; extractZip then makes the cache
\* directory and spawns unzip.
BaseValidateDone(t) ==
  /\ tasks[t].pc = "baseValidate"
  /\ \E valid \in BOOLEAN :
       IF valid
         THEN /\ dirs' = dirs \cup {BaseDirOf(tasks[t].base)}
              /\ Continue(t, [tasks[t] EXCEPT !.pc = "baseUnzip"])
         ELSE /\ dirs' = dirs
              /\ Continue(t, AfterExtractFailure(tasks[t], "download", "resolve"))
  /\ UNCHANGED <<aux, cwdRoot, files, extracted, ollama, usedIds, dels>>

\* extractZip on the base archive: unzip has exited; on success rm -f of
\* the archive is spawned.
BaseUnzipDone(t) ==
  /\ tasks[t].pc = "baseUnzip"
  /\ \/ /\ files' = FilesAfterUnzip(BaseDirOf(tasks[t].base), BaseTree)
        /\ dirs' = DirsAfterUnzip(BaseDirOf(tasks[t].base), BaseTree)
        /\ extracted' = extracted \cup {BaseDirOf(tasks[t].base)}
        /\ Continue(t, [tasks[t] EXCEPT !.pc = "baseRmZip"])
     \/ /\ Continue(t, AfterExtractFailure(tasks[t], "download", "resolve"))
        /\ UNCHANGED <<files, dirs, extracted>>
  /\ UNCHANGED <<aux, cwdRoot, ollama, usedIds, dels>>

\* downloadBaseModel: rm -f of the archive has exited; the path is returned
\* and createModelfile runs up to its first await.
BaseRmZipDone(t) ==
  /\ tasks[t].pc = "baseRmZip"
  /\ \/ /\ files' = FilesAfterRm(BaseZipOf(tasks[t].base))
        /\ dirs' = WithModelfileDir(tasks[t].id, dirs)
        /\ Continue(t, [tasks[t] EXCEPT !.basePath = BaseDirOf(tasks[t].base),
                                        !.stages = Append(@, "resolve"),
                                        !.pc = "build"])
     \/ /\ UNCHANGED <<files, dirs>>
        /\ Continue(t, AfterExtractFailure([tasks[t] EXCEPT !.rmFailed = TRUE], "download", "resolve"))
  /\ UNCHANGED <<aux, cwdRoot, extracted, ollama, usedIds, dels>>

Modelfile(id) == Join(ModelfileDirOf(id), "Modelfile")

\* createModelfile has written the Modelfile (or thrown); on success
\* runOllamaCreate spawns ollama create.
BuildDone(t) ==
  /\ tasks[t].pc = "build"
  /\ dirs' = WithModelfileDir(tasks[t].id, dirs)
  /\ \/ /\ tasks[t].mtype = "full"
        /\ \E from \in FullModelPaths(tasks[t].basePath) :
             files' = (Modelfile(tasks[t].id) :> ModelfileContent(from, <<>>)) @@ files
        /\ Continue(t, [tasks[t] EXCEPT !.stages = Append(@, "build"), !.creates = @ + 1, !.pc = "create"])
     \/ /\ tasks[t].mtype = "lora"
        /\ LET src == LoraConfigSource(tasks[t].basePath, tasks[t].adapterPath)
               copied == IF src = <<>> THEN files
                         ELSE (Join(tasks[t].adapterPath, "config.json") :> files[src]) @@ files
           IN /\ src # <<>> => tasks[t].adapterPath \in dirs
              /\ files' = (Modelfile(tasks[t].id) :>
                             ModelfileContent(LoraFromPath(tasks[t].basePath), tasks[t].adapterPath)) @@ copied
        /\ Continue(t, [tasks[t] EXCEPT !.stages = Append(@, "build"), !.creates = @ + 1, !.pc = "create"])
     \/ /\ files' = files
        /\ Continue(t, Thrown(tasks[t], "build"))
  /\ UNCHANGED <<aux, cwdRoot, extracted, ollama, usedIds, dels>>

\* runOllamaCreate: ollama create has exited.  On success step 5 sets
\* downloaded: true and the final rm -rf of the Modelfile directory is
\* spawned.
CreateDone(t) ==
  /\ tasks[t].pc = "create"
  /\ \E exitCode \in {0, 1} :
       /\ exitCode = 0 => Modelfile(tasks[t].id) \in DOMAIN files
       /\ ollama' = IF exitCode = 0 THEN ollama \cup {tasks[t].alias} ELSE ollama
       /\ LET ran == [tasks[t] EXCEPT !.exit = exitCode,
                                      !.created = IF Modelfile(tasks[t].id) \in DOMAIN files
                                                    THEN files[Modelfile(tasks[t].id)] ELSE Plain]
          IN IF CreateSucceeded(exitCode)
               THEN /\ tasks' = [tasks EXCEPT ![t] =
                                   [ran EXCEPT !.stages = @ \o <<"create", "ready">>, !.pc = "finalRm"]]
                    /\ records' = UpdateDownloaded(tasks[t].id, TRUE)
               ELSE Continue(t, AfterCreateFailure(ran))
  /\ UNCHANGED <<aux, cwdRoot, files, dirs, extracted, usedIds, dels>>

\* The final rm -rf has exited; Bun.$ throws on a non-zero exit.
FinalRmDone(t) ==
  /\ tasks[t].pc = "finalRm"
  /\ \/ /\ files' = FilesAfterRm(ModelfileDirOf(tasks[t].id))
        /\ dirs' = DirsAfterRm(ModelfileDirOf(tasks[t].id))
        /\ Continue(t, [tasks[t] EXCEPT !.pc = "done"])
     \/ /\ UNCHANGED <<files, dirs>>
        /\ Continue(t, Thrown([tasks[t] EXCEPT !.rmFailed = TRUE], "finalize"))
  /\ UNCHANGED <<aux, cwdRoot, extracted, ollama, usedIds, dels>>

\* rm -rf of the extraction directory in one of the three catch blocks.
RmExtractDone(t) ==
  /\ tasks[t].pc = "rmExtract"
  /\ \/ /\ files' = FilesAfterRm(ExtractDirOf(tasks[t].id))
        /\ dirs' = DirsAfterRm(ExtractDirOf(tasks[t].id))
        /\ extracted' = extracted \ {ExtractDirOf(tasks[t].id)}
        /\ Continue(t, [tasks[t] EXCEPT !.pc =
             IF tasks[t].site = "create" /\ ExistsSync(ModelfileDirOf(tasks[t].id))
               THEN "rmModelfile" ELSE "failed"])
     \/ /\ UNCHANGED <<files, dirs, extracted>>
        /\ Continue(t, [tasks[t] EXCEPT !.rmFailed = TRUE, !.pc = "failed"])
  /\ UNCHANGED <<aux, cwdRoot, ollama, usedIds, dels>>

\* rm -rf of the Modelfile directory in the catch block around create.
RmModelfileDone(t) ==
  /\ tasks[t].pc = "rmModelfile"
  /\ \/ /\ files' = FilesAfterRm(ModelfileDirOf(tasks[t].id))
        /\ dirs' = DirsAfterRm(ModelfileDirOf(tasks[t].id))
        /\ Continue(t, [tasks[t] EXCEPT !.pc = "failed"])
     \/ /\ UNCHANGED <<files, dirs>>
        /\ Continue(t, [tasks[t] EXCEPT !.rmFailed = TRUE, !.pc = "failed"])
  /\ UNCHANGED <<aux, cwdRoot, extracted, ollama, usedIds, dels>>

(***************************************************************************)
(* DELETE /models/:id                                                      *)
(***************************************************************************)
DelIds == 1..Len(dels)

\* if (model.length > 0 && model[0].downloaded)
ShouldDeleteFromOllama(row) == row.present /\ row.downloaded

\* The handler answers; what is on disk and in the table at that moment.
Answered(del, code, filesNow, dirsNow, recordsNow) ==
  [del EXCEPT !.pc = "done", !.resp = code,
              !.recLeft = recordsNow[del.id].present,
              !.zipLeft = \E root \in {DataRoot, cwdRoot} : UploadZip(root, del.id) \in DOMAIN filesNow,
              !.dirLeft = ExtractDirOf(del.id) \in dirsNow]

\* db.delete, then the handler removes the files it finds: the position
\* after the row is gone (recordsNow), up to the next spawned rm.
AfterDbDelete(del, recordsNow) ==
  IF ExistsSync(UploadZip(DataRoot, del.id))
    THEN [del EXCEPT !.pc = "rmZip"]
    ELSE IF ExistsSync(ExtractDirOf(del.id))
      THEN [del EXCEPT !.pc = "rmExtract"]
      ELSE Answered(del, 200, files, dirs, recordsNow)

NewDelete(m) ==
  [id |-> m, existed |-> records[m].present, alias |-> records[m].alias,
   was |-> IF records[m].present THEN StatusOf(records[m]) ELSE "none",
   rmIssued |-> ShouldDeleteFromOllama(records[m]),
   held |-> records[m].alias \in ollama,
   pc |-> "ollamaRm", resp |-> 0, recLeft |-> FALSE, zipLeft |-> FALSE, dirLeft |-> FALSE]

\* The request arrives: the row is selected; for a downloaded row ollama
\* rm is spawned, else the row is deleted at once.
DeleteRequest(m) ==
  /\ Len(dels) < MaxDeletes
  /\ IF ShouldDeleteFromOllama(records[m])
       THEN /\ dels' = Append(dels, NewDelete(m))
            /\ records' = records
       ELSE /\ dels' = Append(dels, AfterDbDelete(NewDelete(m), [records EXCEPT ![m] = NoRow]))
            /\ records' = [records EXCEPT ![m] = NoRow]
  /\ UNCHANGED <<aux, cwdRoot, files, dirs, extracted, ollama, usedIds, tasks>>

\* deleteModelFromOllama: ollama rm has exited; every error is swallowed,
\* and the row is deleted.
DeleteOllamaDone(d) ==
  /\ dels[d].pc = "ollamaRm"
  /\ \E exitCode \in {0, 1} :
       /\ exitCode = 0 => dels[d].alias \in ollama
       /\ ollama' = IF exitCode = 0 THEN ollama \ {dels[d].alias} ELSE ollama
  /\ records' = [records EXCEPT ![dels[d].id] = NoRow]
  /\ dels' = [dels EXCEPT ![d] = AfterDbDelete(dels[d], records')]
  /\ UNCHANGED <<aux, cwdRoot, files, dirs, extracted, usedIds, tasks>>

\* rm -f of the archive has exited.
DeleteRmZipDone(d) ==
  /\ dels[d].pc = "rmZip"
  /\ \/ /\ files' = FilesAfterRm(UploadZip(DataRoot, dels[d].id))
        /\ dels' = [dels EXCEPT ![d] =
             IF ExistsSync(ExtractDirOf(dels[d].id))
               THEN [dels[d] EXCEPT !.pc = "rmExtract"]
               ELSE Answered(dels[d], 200, files', dirs, records)]
     \/ /\ files' = files
        /\ dels' = [dels EXCEPT ![d] = Answered(dels[d], 500, files, dirs, records)]
  /\ UNCHANGED <<aux, cwdRoot, dirs, extracted, records, ollama, usedIds, tasks>>

\* rm -rf of the extraction directory has exited.
DeleteRmExtractDone(d) ==
  /\ dels[d].pc = "rmExtract"
  /\ \/ /\ files' = FilesAfterRm(ExtractDirOf(dels[d].id))
        /\ dirs' = DirsAfterRm(ExtractDirOf(dels[d].id))
        /\ extracted' = extracted \ {ExtractDirOf(dels[d].id)}
        /\ dels' = [dels EXCEPT ![d] = Answered(dels[d], 200, files', dirs', records)]
     \/ /\ UNCHANGED <<files, dirs, extracted>>
        /\ dels' = [dels EXCEPT ![d] = Answered(dels[d], 500, files, dirs, records)]
  /\ UNCHANGED <<aux, cwdRoot, records, ollama, usedIds, tasks>>

(***************************************************************************)
(* Chunked upload (api/chunked-upload.ts)                                  *)
(***************************************************************************)
\* if (i % 10 === 0) await writer.flush()
FlushEvery == 10

Bytes == {"a", "b"}
ChunkContents == UNION {[1..n -> Bytes] : n \in 0..MaxChunkLen}

\* chunkIndex values a /chunk call may carry: parseInt accepts any integer.
ChunkIndexes == (0 - 1)..MaxChunks
\* totalChunks values a /complete call may carry.
TotalChunks == 0..(MaxChunks + 1)

NoChunks == [k \in {} |-> <<>>]

\* No session: nothing staged, no /complete received.
NoUpload ==
  [dir |-> FALSE, staged |-> NoChunks, pc |-> "idle", total |-> 0, i |-> 0,
   written |-> <<>>, totalSize |-> 0, destExists |-> FALSE, dest |-> <<>>,
   before |-> NoChunks, code |-> 0, size |-> 0]

\* POST /start has made temp-uploads/<modelId>.
StartedUpload == [NoUpload EXCEPT !.dir = TRUE]

FirstChunkKey(i) == 0

\* join(tempDir, `chunk_${i}`): the chunk files are keyed by their index.
ChunkKey(i) == i

ReadsAsEmpty(u, k) == FALSE

\* await chunkFile.arrayBuffer() rejects when the file does not exist.
ChunkMissing(u, k) == k \notin DOMAIN u.staged

\* Bun.file(chunkPath): size and bytes, an absent file having size 0.
ChunkBytes(u, k) == IF k \in DOMAIN u.staged THEN u.staged[k] ELSE <<>>

CleanedOnError(u) ==
  [u EXCEPT !.pc = "failed", !.code = 500, !.dir = FALSE, !.staged = NoChunks]

\* The handler has no try/catch: a rejected await ends it and Hono answers
\* 500.
CompleteFailed(u) == [u EXCEPT !.pc = "failed", !.code = 500]

\* The loop of /complete up to its next await: the read of chunk i, or
\* writer.end() after the last one.
LoopAt(u) == [u EXCEPT !.pc = IF u.i < u.total THEN "read" ELSE "end"]

\* POST /chunk: Bun.write(chunkPath, arrayBuffer); a later write of the
\* same index replaces the earlier one.
StoreChunk(k, bytes) ==
  /\ upl.pc = "idle"
  /\ upl.dir
  /\ upl' = [upl EXCEPT !.staged = (k :> bytes) @@ upl.staged]
  /\ UNCHANGED <<pipeline, ext>>

\* POST /complete arrives: the writer on uploads/<modelId>.zip is opened
\* and the loop starts.
CompleteStart(n) ==
  /\ upl.pc = "idle"
  /\ upl.dir
  /\ upl' = LoopAt([upl EXCEPT !.total = n, !.i = 0, !.written = <<>>, !.totalSize = 0,
                               !.destExists = TRUE, !.dest = <<>>, !.before = upl.staged])
  /\ UNCHANGED <<pipeline, ext>>

\* One iteration: the chunk has been read (or the read was rejected), is
\* written to the writer and counted; the writer is flushed when i % 10 = 0.
ChunkRead ==
  /\ upl.pc = "read"
  /\ upl' = IF ChunkMissing(upl, ChunkKey(upl.i))
              THEN CompleteFailed(upl)
              ELSE LET w == upl.written \o ChunkBytes(upl, ChunkKey(upl.i))
                   IN LoopAt([upl EXCEPT !.written = w,
                                         !.totalSize = @ + Len(ChunkBytes(upl, ChunkKey(upl.i))),
                                         !.dest = IF upl.i % FlushEvery = 0 THEN w ELSE @,
                                         !.i = @ + 1])
  /\ UNCHANGED <<pipeline, ext>>

\* writer.end() has completed; rm -rf of the staging directory is spawned.
WriterEnd ==
  /\ upl.pc = "end"
  /\ upl' = [upl EXCEPT !.dest = upl.written, !.pc = "rm"]
  /\ UNCHANGED <<pipeline, ext>>

\* rm -rf has exited: on success the handler answers with the size of the
\* final file; Bun.$ throws on a non-zero exit.
StagingRmDone ==
  /\ upl.pc = "rm"
  /\ \/ upl' = [upl EXCEPT !.dir = FALSE, !.staged = NoChunks, !.pc = "done",
                           !.code = 200, !.size = Len(upl.dest)]
     \/ upl' = CompleteFailed(upl)
  /\ UNCHANGED <<pipeline, ext>>

(***************************************************************************)
(* Multi-strategy extractZip (api/import-model.ts)                         *)
(***************************************************************************)
\* The extraction commands in the order of the code; tar, unzip and python3
\* are spawned on every host, ditto only when process.platform is darwin.
Strategies == <<"ditto", "tar", "unzip", "python">>
Tools == {Strategies[i] : i \in 1..Len(Strategies)}
Platforms == {"darwin", "linux"}
StderrText == [ditto |-> "ditto: error", tar |-> "tar: error",
               unzip |-> "unzip: error", python |-> "Error: bad zip"]

\* The strategies the run attempts on a platform, in order.
IsAvailable(tool, platform) == tool # "ditto" \/ platform = "darwin"
Available(platform) == SelectSeq(Strategies, LAMBDA tool : IsAvailable(tool, platform))

\* No run of extractZip.
NoExtract ==
  [platform |-> "linux", exists |-> FALSE, listOk |-> FALSE, fileZip |-> FALSE,
   would |-> [tool \in Tools |-> FALSE], quiet |-> {},
   pc |-> "none", attempts |-> <<>>, outputs |-> <<>>,
   extractionSuccessful |-> FALSE, extractionError |-> "", message |-> <<>>]

\* What the failed tool printed on stderr.
Stderr(e, tool) == IF tool \in e.quiet THEN "" ELSE StderrText[tool]

\* The position after the commands before position i all failed: the next
\* one the platform has, or the final check.
RECURSIVE StrategyFrom(_, _)
StrategyFrom(i, platform) ==
  IF i > Len(Strategies) THEN "check"
  ELSE IF IsAvailable(Strategies[i], platform) THEN Strategies[i]
  ELSE StrategyFrom(i + 1, platform)

IndexOf(tool) == CHOOSE i \in 1..Len(Strategies) : Strategies[i] = tool

TriesEveryStrategy(tool, successful, platform) == StrategyFrom(IndexOf(tool) + 1, platform)

GivesUpAfter(tool, successful, platform) == "check"

\* if (!extractionSuccessful) before each later method.
AfterStrategy(tool, successful, platform) ==
  IF successful THEN "check" ELSE StrategyFrom(IndexOf(tool) + 1, platform)

\* fileStdout.toLowerCase().includes("zip")
ZipLike(e) == e.fileZip

\* extractionError = stderr (unzip); pythonStderr || extractionError
\* (python); ditto and tar only log theirs.
ErrorAfter(e, tool) ==
  IF tool = "unzip" THEN Stderr(e, tool)
  ELSE IF tool = "python" /\ Stderr(e, tool) # "" THEN Stderr(e, tool)
  ELSE e.extractionError

\* The final check: throw "Failed to extract zip with all methods. Last
\* error: ${extractionError}" unless a method succeeded.
Checked(e) ==
  IF e.pc # "check" THEN e
  ELSE IF e.extractionSuccessful THEN [e EXCEPT !.pc = "ok"]
  ELSE [e EXCEPT !.pc = "failed", !.message = <<e.extractionError>>]

\* extractZip is called: validateZipFile checks that the file exists and
\* spawns unzip -l.
ExtractCall ==
  /\ ext.pc = "call"
  /\ ext' = [ext EXCEPT !.pc = IF ext.exists THEN "list" ELSE "invalid"]
  /\ UNCHANGED <<pipeline, upl>>

\* unzip -l has exited: on 0 the archive is valid, else file is spawned.
ListDone ==
  /\ ext.pc = "list"
  /\ ext' = [ext EXCEPT !.pc = IF ext.listOk THEN StrategyFrom(1, ext.platform) ELSE "file"]
  /\ UNCHANGED <<pipeline, upl>>

\* file has answered: a type that mentions zip lets the extraction go on.
FileDone ==
  /\ ext.pc = "file"
  /\ ext' = [ext EXCEPT !.pc = IF ZipLike(ext) THEN StrategyFrom(1, ext.platform) ELSE "invalid"]
  /\ UNCHANGED <<pipeline, upl>>

\* The command of one method has exited.
StrategyDone(tool) ==
  /\ ext.pc = tool
  /\ LET ok == ext.would[tool]
         ran == [ext EXCEPT !.attempts = Append(@, tool),
                            !.outputs = Append(@, IF ok THEN "" ELSE Stderr(ext, tool)),
                            !.extractionSuccessful = ok,
                            !.extractionError = IF ok THEN @ ELSE ErrorAfter(ext, tool)]
     IN ext' = Checked([ran EXCEPT !.pc = AfterStrategy(tool, ok, ext.platform)])
  /\ UNCHANGED <<pipeline, upl>>

(***************************************************************************)
(* Specification                                                           *)
(***************************************************************************)
\* The server has started (startServer made the data directories) and the
\* chunked uploads of ChunkedIds have been assembled.
Init ==
  /\ cwdRoot \in {DataRoot, "cwd"}
  /\ files = [p \in {UploadZip(cwdRoot, m) : m \in ChunkedIds} |-> Plain]
  /\ usedIds = ChunkedIds
  /\ dirs = {<<DataRoot>>, <<DataRoot, "uploads">>, <<DataRoot, "temp-uploads">>, <<DataRoot, "models">>,
             <<cwdRoot>>, <<cwdRoot, "uploads">>}
  /\ extracted = {}
  /\ records = [m \in ModelIds |-> NoRow]
  /\ ollama = {}
  /\ tasks = <<>>
  /\ dels = <<>>
  /\ upl = NoUpload
  /\ ext = NoExtract

Next ==
  \/ \E m \in ModelIds, name \in Names : UploadRequest(m, name)
  \/ \E m \in ModelIds, name \in Names : ImportRequest(m, name)
  \/ \E t \in TaskIds : ValidateDone(t)
  \/ \E t \in TaskIds : UnzipDone(t)
  \/ \E t \in TaskIds : Detect(t)
  \/ \E t \in TaskIds : CurlDone(t)
  \/ \E t \in TaskIds : BaseValidateDone(t)
  \/ \E t \in TaskIds : BaseUnzipDone(t)
  \/ \E t \in TaskIds : BaseRmZipDone(t)
  \/ \E t \in TaskIds : BuildDone(t)
  \/ \E t \in TaskIds : CreateDone(t)
  \/ \E t \in TaskIds : FinalRmDone(t)
  \/ \E t \in TaskIds : RmExtractDone(t)
  \/ \E t \in TaskIds : RmModelfileDone(t)
  \/ \E m \in ModelIds : DeleteRequest(m)
  \/ \E d \in DelIds : DeleteOllamaDone(d)
  \/ \E d \in DelIds : DeleteRmZipDone(d)
  \/ \E d \in DelIds : DeleteRmExtractDone(d)

Spec == Init /\ [][Next]_vars

\* Fairness: every spawned process exits and its completion is handled,
\* so a task or a delete that has a next step takes it.
TaskStep(t) ==
  /\ t \in TaskIds
  /\ \/ ValidateDone(t) \/ UnzipDone(t) \/ Detect(t) \/ CurlDone(t)
     \/ BaseValidateDone(t) \/ BaseUnzipDone(t) \/ BaseRmZipDone(t)
     \/ BuildDone(t) \/ CreateDone(t) \/ FinalRmDone(t)
     \/ RmExtractDone(t) \/ RmModelfileDone(t)
DeleteStep(d) ==
  /\ d \in DelIds
  /\ (DeleteOllamaDone(d) \/ DeleteRmZipDone(d) \/ DeleteRmExtractDone(d))

FairSpec ==
  /\ Init /\ [][Next]_vars
  /\ \A t \in 1..MaxTasks : WF_vars(TaskStep(t))
  /\ \A d \in 1..MaxDeletes : WF_vars(DeleteStep(d))

\* The import pipeline at rest, for the components studied on their own.
PipelineIdle ==
  /\ cwdRoot = "cwd"
  /\ files = [p \in {} |-> Plain]
  /\ dirs = {}
  /\ extracted = {}
  /\ records = [m \in ModelIds |-> NoRow]
  /\ ollama = {}
  /\ usedIds = {}
  /\ tasks = <<>>
  /\ dels = <<>>

\* One chunked upload session, from the answer of /start on.
ChunkInit == PipelineIdle /\ upl = StartedUpload /\ ext = NoExtract

ChunkNext ==
  \/ \E k \in ChunkIndexes, bytes \in ChunkContents : StoreChunk(k, bytes)
  \/ \E n \in TotalChunks : CompleteStart(n)
  \/ ChunkRead
  \/ WriterEnd
  \/ StagingRmDone

ChunkSpec == ChunkInit /\ [][ChunkNext]_vars

\* A call of extractZip on some archive on some host: which commands would
\* unpack the archive, and what the failing ones print.
ExtractInit ==
  /\ PipelineIdle
  /\ upl = NoUpload
  /\ \E platform \in Platforms, exists, listOk, fileZip \in BOOLEAN,
        would \in [Tools -> BOOLEAN], quiet \in SUBSET Tools :
       /\ ~exists => (~listOk /\ ~fileZip /\ \A tool \in Tools : ~would[tool])
       /\ ext = [NoExtract EXCEPT !.platform = platform, !.exists = exists,
                                  !.listOk = listOk, !.fileZip = fileZip,
                                  !.would = would, !.quiet = quiet, !.pc = "call"]

ExtractNext ==
  \/ ExtractCall
  \/ ListDone
  \/ FileDone
  \/ \E tool \in Tools : StrategyDone(tool)

ExtractSpec == ExtractInit /\ [][ExtractNext]_vars

\* detectModelType on its own: what the archive of an import unpacked to is
\* drawn from the trees below, and the import is about to detect its type.
MarkerNames == {"adapter_config.json", "config.json"}
SubdirNames == {"wrap", "other"} \cup HiddenNames
DeclaredPaths ==
  {<<>>, <<BaseName>>, <<"/", "x", "/", "y", "/", "base-7b">>, <<"x", "/", BaseName>>, <<"x", "/">>}
AdapterCfgs == {AdapterCfg(parses, declared) : parses \in BOOLEAN, declared \in DeclaredPaths}

DetectInit ==
  /\ cwdRoot = DataRoot
  /\ usedIds = {IdNames[1]}
  /\ \E top \in SUBSET MarkerNames, subs \in SUBSET SubdirNames, inner \in SUBSET MarkerNames,
        cfg \in AdapterCfgs :
       \E holder \in (IF subs = {} THEN {"none"} ELSE subs) :
         LET root == ExtractDirOf(IdNames[1])
             paths == {Join(root, n) : n \in top}
                        \cup (IF subs = {} THEN {} ELSE {Join(Join(root, holder), n) : n \in inner})
         IN /\ (subs = {} => inner = {})
            /\ files = (UploadZip(DataRoot, IdNames[1]) :> Plain)
                         @@ [p \in paths |-> IF p[Len(p)] = "adapter_config.json" THEN cfg ELSE Plain]
            /\ dirs = {<<DataRoot>>, <<DataRoot, "uploads">>, <<DataRoot, "temp-uploads">>,
                       <<DataRoot, "models">>, root}
                        \cup {Join(root, d) : d \in subs}
            /\ extracted = {root}
  /\ \E name \in Names :
       /\ records = [m \in ModelIds |->
            IF m = IdNames[1] THEN InsertedRow(CleanName(name), SanitizeAlias(CleanName(name))) ELSE NoRow]
       /\ tasks = <<[NewTask(IdNames[1], SanitizeAlias(CleanName(name)), UploadZip(DataRoot, IdNames[1]))
                       EXCEPT !.pc = "detect", !.stages = <<"extract">>]>>
  /\ ollama = {}
  /\ dels = <<>>
  /\ upl = NoUpload
  /\ ext = NoExtract

DetectNext == \E t \in TaskIds : Detect(t)

DetectSpec == DetectInit /\ [][DetectNext]_vars

\* createModelfile on its own: the import has extracted its archive,
\* detected the type and (for a lora model) resolved the base model, and is
\* about to build the Modelfile.
WeightDirNames == {"weights", "other"} \cup HiddenNames
BaseSubdirNames == {"snapshot"} \cup HiddenNames

\* A config.json the adapter archive brought along (not the base model's).
OwnConfig == [json |-> TRUE, base |-> <<>>, from |-> <<>>, adapter |-> <<>>]

BuildTask(mtype, base, adapterPath, basePath, stages) ==
  [NewTask(IdNames[1], SanitizeAlias(CleanName(<<"Q", "w">>)), UploadZip(DataRoot, IdNames[1]))
     EXCEPT !.pc = "build", !.mtype = mtype, !.base = base,
            !.adapterPath = adapterPath, !.basePath = basePath,
            !.cache = IF mtype = "lora" THEN "hit" ELSE "none",
            !.hitOn = IF mtype = "lora" THEN "complete" ELSE "none",
            !.stages = stages]

\* A full model: weight files of some kinds in the top level or in one of
\* its subdirectories.
FullBuildInit ==
  \E subs \in SUBSET WeightDirNames, kinds \in (SUBSET WeightNames) \ {{}}, withConfig \in BOOLEAN :
    \E holder \in subs \cup {"top"} :
      LET root == ExtractDirOf(IdNames[1])
          at == IF holder = "top" THEN root ELSE Join(root, holder)
          paths == {Join(at, w) : w \in kinds}
                     \cup (IF withConfig THEN {Join(at, "config.json")} ELSE {})
      IN /\ files = (UploadZip(DataRoot, IdNames[1]) :> Plain) @@ [p \in paths |-> Plain]
         /\ dirs = {<<DataRoot>>, <<DataRoot, "uploads">>, <<DataRoot, "temp-uploads">>,
                    <<DataRoot, "models">>, root}
                     \cup {Join(root, d) : d \in subs}
         /\ extracted = {root}
         /\ tasks = <<BuildTask("full", "", <<>>, root, <<"extract", "detect">>)>>

\* A lora model: the adapter in the top level or in its single listed
\* subdirectory, with or without a config.json of its own, and the base
\* model in the cache, its config.json in the top level or a subdirectory.
LoraBuildInit ==
  \E wrapped \in BOOLEAN, hidden \in SUBSET HiddenNames, own \in BOOLEAN,
     subs \in SUBSET BaseSubdirNames, topConfig \in BOOLEAN :
    \E subConfig \in SUBSET subs :
      LET root == ExtractDirOf(IdNames[1])
          adapterDir == IF wrapped THEN Join(root, "wrap") ELSE root
          baseDir == BaseDirOf(BaseName)
          adapterFiles == (Join(adapterDir, "adapter_config.json") :> AdapterCfg(TRUE, <<BaseName>>))
                            @@ (Join(adapterDir, "adapter_model.safetensors") :> Plain)
                            @@ (IF own THEN (Join(adapterDir, "config.json") :> OwnConfig)
                                       ELSE [p \in {} |-> Plain])
          basePaths == {Join(baseDir, "model.safetensors")}
                         \cup (IF topConfig THEN {Join(baseDir, "config.json")} ELSE {})
                         \cup {Join(Join(baseDir, d), "config.json") : d \in subConfig}
      IN /\ files = (UploadZip(DataRoot, IdNames[1]) :> Plain) @@ adapterFiles
                      @@ [p \in basePaths |-> Plain]
         /\ dirs = {<<DataRoot>>, <<DataRoot, "uploads">>, <<DataRoot, "temp-uploads">>,
                    <<DataRoot, "models">>, root, BaseModelsDir, baseDir,
                    ModelfileDirOf(IdNames[1])}
                     \cup (IF wrapped THEN {adapterDir} ELSE {})
                     \cup {Join(root, h) : h \in hidden}
                     \cup {Join(baseDir, d) : d \in subs}
         /\ extracted = {root, baseDir}
         /\ tasks = <<BuildTask("lora", BaseName, adapterDir, baseDir,
                                <<"extract", "detect", "resolve">>)>>

BuildInit ==
  /\ cwdRoot = DataRoot
  /\ usedIds = {IdNames[1]}
  /\ records = [m \in ModelIds |->
       IF m = IdNames[1]
         THEN InsertedRow(CleanName(<<"Q", "w">>), SanitizeAlias(CleanName(<<"Q", "w">>)))
         ELSE NoRow]
  /\ ollama = {}
  /\ dels = <<>>
  /\ upl = NoUpload
  /\ ext = NoExtract
  /\ (FullBuildInit \/ LoraBuildInit)

BuildNext == \E t \in TaskIds : BuildDone(t)

BuildSpec == BuildInit /\ [][BuildNext]_vars

\* DELETE /models/:id on its own: every model has been imported and is
\* ready (the server may have been restarted since: no task is left), the
\* first through a chunked upload and the others through /models/upload;
\* the runtime holds some of their aliases (an alias it no longer holds was
\* removed by an earlier delete of a model with the same alias).
ReadyNames == Names \cup {<<"Q", "W">>}
ReadyRow(name) ==
  [InsertedRow(CleanName(name), SanitizeAlias(CleanName(name))) EXCEPT !.downloaded = TRUE]

DeleteInit ==
  /\ cwdRoot \in {DataRoot, "cwd"}
  /\ usedIds = ModelIds
  /\ \E name \in [ModelIds -> ReadyNames] :
       /\ records = [m \in ModelIds |-> ReadyRow(name[m])]
       /\ ollama \in SUBSET {SanitizeAlias(CleanName(name[m])) : m \in ModelIds}
  /\ LET zipOf(m) == UploadZip(IF m \in ChunkedIds THEN cwdRoot ELSE DataRoot, m)
         trees == UNION {UnzipPaths(ExtractDirOf(m), FullTree) : m \in ModelIds}
     IN /\ files = [p \in {zipOf(m) : m \in ModelIds} \cup trees |-> Plain]
        /\ dirs = {<<DataRoot>>, <<DataRoot, "uploads">>, <<DataRoot, "temp-uploads">>,
                   <<DataRoot, "models">>, <<cwdRoot>>, <<cwdRoot, "uploads">>}
                    \cup {ExtractDirOf(m) : m \in ModelIds}
  /\ extracted = {ExtractDirOf(m) : m \in ModelIds}
  /\ tasks = <<>>
  /\ dels = <<>>
  /\ upl = NoUpload
  /\ ext = NoExtract

DeleteNext ==
  \/ \E m \in ModelIds : DeleteRequest(m)
  \/ \E d \in DelIds : DeleteStep(d)

DeleteSpec == DeleteInit /\ [][DeleteNext]_vars

(***************************************************************************)
(* Properties                                                              *)
(***************************************************************************)
\* A delete request for model id has been received.
DeleteIssued(id) == \E d \in DelIds : dels[d].id = id
StagesBeforeReady == {"zip", "extract", "unresolved", "resolve", "build", "create"}
InStages(task, stage) == \E i \in 1..Len(task.stages) : task.stages[i] = stage

\* C1: a record's downloaded flag goes from false to true only in the step
\* in which the ollama create of an import of that model has exited with
\* code 0, and an import that failed in extraction, detection, base-model
\* resolution, configuration build or create never set its record ready.
C1_ReadyOnlyAfterCreateExitZero ==
  [][
    /\ \A m \in ModelIds :
         (records[m].present /\ ~records[m].downloaded /\ records'[m].downloaded)
           => \E t \in TaskIds : /\ tasks[t].id = m
                                 /\ tasks[t].pc = "create"
                                 /\ tasks'[t].exit = 0
                                 /\ InStages(tasks'[t], "create")
    /\ \A u \in 1..Len(tasks') :
         (tasks'[u].failStage \in StagesBeforeReady \/ tasks'[u].exit = 1)
           => ~InStages(tasks'[u], "ready")
  ]_vars

C1_Witness ==
  /\ \E t \in TaskIds : tasks[t].exit = 0 /\ records[tasks[t].id].downloaded
  /\ \E t \in TaskIds : tasks[t].exit = 1 /\ tasks[t].pc = "failed"

\* C2: after an import has failed, the status query for its model reports
\* "failed" and the record still exists (no delete having been requested).
C2_FailedImportReportsFailed ==
  \A t \in TaskIds :
    (tasks[t].pc = "failed" /\ ~DeleteIssued(tasks[t].id))
      => /\ records[tasks[t].id].present
         /\ StatusResponse(tasks[t].id).status = "failed"

\* C3: when an import has ended in failure (and no rm it ran failed), the
\* extraction directory and the Modelfile directory of the model do not
\* exist.
C3_FailedImportLeavesNoDirs ==
  \A t \in TaskIds :
    (tasks[t].pc = "failed" /\ ~tasks[t].rmFailed)
      => /\ ~ExistsSync(ExtractDirOf(tasks[t].id))
         /\ ~ExistsSync(ModelfileDirOf(tasks[t].id))

\* C4: an import whose archive was detected as lora without a base model
\* has ended in failure at that point: it looked up no cache and started no
\* download, built no Modelfile, invoked no ollama create, and its record
\* is not ready.
C4_LoraWithoutBaseFails ==
  \A t \in TaskIds :
    (tasks[t].mtype = "lora" /\ tasks[t].base = "")
      => /\ tasks[t].pc = "failed"
         /\ tasks[t].failStage = "unresolved"
         /\ tasks[t].cache = "none"
         /\ tasks[t].basePath = <<>>
         /\ ~InStages(tasks[t], "resolve")
         /\ ~InStages(tasks[t], "build")
         /\ tasks[t].creates = 0
         /\ tasks[t].exit = -1
         /\ ~InStages(tasks[t], "ready")
         /\ ~records[tasks[t].id].downloaded

C4_Witness ==
  \E t \in TaskIds :
    /\ tasks[t].mtype = "lora" /\ tasks[t].base = ""
    /\ tasks[t].adapterPath = Join(ExtractDirOf(tasks[t].id), "wrap")
    /\ records[tasks[t].id].present

\* C5: every record of a started import eventually answers the status
\* query with a terminal value, "ready" or "failed" (or is deleted).
C5_StatusEventuallyTerminal ==
  \A m \in ModelIds :
    records[m].present
      ~> (~records[m].present \/ StatusResponse(m).status \in {"ready", "failed"})

\* C6: no import gets a cache hit on a base-model directory that a failed
\* resolve left behind.
C6_NoHitOnLeftover ==
  \A t \in TaskIds : tasks[t].cache = "hit" => tasks[t].hitOn # "leftover"

\* The task is inside downloadBaseModel, past the cache check.
InResolve(task) == task.pc \in {"curl", "baseValidate", "baseUnzip", "baseRmZip"}

\* C7: for every base model, at most one import at a time is between the
\* cache check and the end of downloadBaseModel.
C7_OneResolverPerBase ==
  \A t, u \in TaskIds :
    (InResolve(tasks[t]) /\ InResolve(tasks[u]) /\ tasks[t].base = tasks[u].base) => t = u

\* The order in which the stages of an import succeed, and the one spawn of
\* ollama create, which follows a successful build.
StageOrder(task) ==
  IF task.mtype = "lora"
    THEN <<"extract", "detect", "resolve", "build", "create", "ready">>
    ELSE <<"extract", "detect", "build", "create", "ready">>
StagesInOrder(task) ==
  /\ Len(task.stages) <= Len(StageOrder(task))
  /\ task.stages = SubSeq(StageOrder(task), 1, Len(task.stages))
  /\ task.creates \in {0, 1}
  /\ task.creates = 1 <=> InStages(task, "build")
FullCreateSucceeds(t) ==
  tasks[t].pc = "create" /\ tasks'[t].pc = "finalRm" /\ tasks[t].mtype = "full"
BuiltForExtractDir(task) ==
  /\ task.creates = 1
  /\ task.exit = 0
  /\ task.created.adapter = <<>>
  /\ IsPrefix(ExtractDirOf(task.id), task.created.from)

\* C8: the stages of an import succeed in the order extract, detect,
\* resolve (lora only), build, create, status update; ollama create is
\* spawned at most once and only after build succeeded; the step in which
\* the create of a full model exits with 0 follows exactly one spawn with
\* a Modelfile whose FROM lies in the extraction directory and no ADAPTER,
\* and in that step the record goes from importing to ready.
C8_StagesAndReady ==
  [][
    \A t \in 1..Len(tasks') :
      /\ StagesInOrder(tasks'[t])
      /\ (t <= Len(tasks) /\ FullCreateSucceeds(t))
           => /\ BuiltForExtractDir(tasks'[t])
              /\ records[tasks[t].id].present
              /\ StatusOf(records[tasks[t].id]) = "importing"
              /\ StatusOf(records'[tasks[t].id]) = "ready"
  ]_vars

\* C8 amended: the same order, single spawn and Modelfile; and in that step
\* the record, unless a delete has removed it in the meantime, goes from
\* importing to ready.
C8_StagesAndReadyUnlessDeleted ==
  [][
    \A t \in 1..Len(tasks') :
      /\ StagesInOrder(tasks'[t])
      /\ (t <= Len(tasks) /\ FullCreateSucceeds(t))
           => /\ BuiltForExtractDir(tasks'[t])
              /\ records[tasks[t].id].present
                   => /\ StatusOf(records[tasks[t].id]) = "importing"
                      /\ records'[tasks[t].id].present
                      /\ StatusOf(records'[tasks[t].id]) = "ready"
  ]_vars

C8_Witness ==
  \E t \in TaskIds :
    /\ tasks[t].mtype = "full" /\ tasks[t].pc = "finalRm"
    /\ tasks[t].stages = StageOrder(tasks[t])
    /\ tasks[t].created.from = ExtractDirOf(tasks[t].id)
    /\ StatusOf(records[tasks[t].id]) = "ready"
    /\ \E u \in TaskIds : tasks[u].mtype = "lora" /\ InStages(tasks[u], "resolve")

\* The positions of a task before step 5, the status update.
BeforeStatusUpdate ==
  {"validate", "unzip", "detect", "curl", "baseValidate", "baseUnzip", "baseRmZip", "build", "create"}

\* C9: the step of a request that starts an import inserts the record with
\* status importing and answers at once, with the task at its first await
\* (or already failed on a missing archive); the record stays importing
\* while the task has not reached the status update, delete apart.
C9_RecordImportingBeforeTaskRuns ==
  [][
    \A t \in 1..Len(tasks') :
      /\ tasks'[t].acked
      /\ t > Len(tasks)
           => /\ ~records[tasks'[t].id].present
              /\ records'[tasks'[t].id].present
              /\ StatusOf(records'[tasks'[t].id]) = "importing"
              /\ tasks'[t].pc \in {"validate", "failed"}
              /\ tasks'[t].stages = <<>>
      /\ (tasks'[t].pc \in BeforeStatusUpdate /\ \A d \in 1..Len(dels') : dels'[d].id # tasks'[t].id)
           => /\ records'[tasks'[t].id].present
              /\ StatusOf(records'[tasks'[t].id]) = "importing"
  ]_vars

C9_Witness ==
  \E t \in TaskIds :
    /\ tasks[t].acked /\ tasks[t].pc = "create"
    /\ StatusResponse(tasks[t].id).status = "importing"

\* C10: a record disappears only in a step of a delete request for it, and
\* a delete of an existing record that has answered 200 issued ollama rm
\* and left neither the record, nor the archive, nor the extraction
\* directory.
C10_DeleteRemovesEverything ==
  [][
    /\ \A m \in ModelIds :
         (records[m].present /\ ~records'[m].present)
           => \E d \in 1..Len(dels') : dels'[d].id = m
    /\ \A d \in 1..Len(dels') :
         (dels'[d].pc = "done" /\ dels'[d].resp = 200 /\ dels'[d].existed)
           => /\ dels'[d].rmIssued
              /\ ~dels'[d].recLeft
              /\ ~dels'[d].zipLeft
              /\ ~dels'[d].dirLeft
  ]_vars

\* The chunks 0..n-1 of f in increasing index order, and their total length.
RECURSIVE ConcatChunks(_, _)
ConcatChunks(f, n) == IF n = 0 THEN <<>> ELSE ConcatChunks(f, n - 1) \o f[n - 1]
RECURSIVE SumChunkLengths(_, _)
SumChunkLengths(f, n) == IF n = 0 THEN 0 ELSE SumChunkLengths(f, n - 1) + Len(f[n - 1])
Covers(f, n) == \A i \in 0..(n - 1) : i \in DOMAIN f

\* C11: when the chunks stored before /complete cover 0..totalChunks-1,
\* then once the writer has been closed the final file holds the chunks
\* concatenated in increasing index order, and the size the handler
\* reports with its success answer is the sum of their lengths.
C11_AssembledInIndexOrder ==
  (upl.pc \in {"rm", "done", "failed"} /\ Covers(upl.before, upl.total))
    => /\ upl.i = upl.total
       /\ upl.destExists
       /\ upl.dest = ConcatChunks(upl.before, upl.total)
       /\ upl.totalSize = SumChunkLengths(upl.before, upl.total)
       /\ upl.pc = "done" => (upl.code = 200 /\ upl.size = SumChunkLengths(upl.before, upl.total))

C11_Witness ==
  /\ upl.pc = "done" /\ upl.total = MaxChunks
  /\ upl.before[0] # upl.before[1]
  /\ upl.before[0] # <<>> /\ upl.before[1] # <<>>
  /\ MaxChunks \in DOMAIN upl.before

\* C12: when some index of 0..totalChunks-1 was not stored when /complete
\* arrived, the handler never answers success: it ends with an error.
C12_MissingChunkFails ==
  (upl.pc # "idle" /\ ~Covers(upl.before, upl.total))
    => /\ upl.pc \in {"read", "failed"}
       /\ upl.code # 200
       /\ upl.size = 0

C12_Witness ==
  /\ upl.pc = "failed" /\ upl.total = MaxChunks
  /\ 0 \in DOMAIN upl.before /\ 1 \notin DOMAIN upl.before
  /\ upl.i = 1

ExtractEnded == ext.pc \in {"ok", "failed", "invalid"}
ValidationPassed == ext.exists /\ (ext.listOk \/ ext.fileZip)
SomeStrategyWouldSucceed ==
  \E tool \in Tools : IsAvailable(tool, ext.platform) /\ ext.would[tool]
AllAttemptedAndFailed ==
  /\ ext.attempts = Available(ext.platform)
  /\ \A i \in 1..Len(ext.attempts) : ~ext.would[ext.attempts[i]]

C15_StrategiesInOrder ==
  /\ Len(ext.attempts) <= Len(Available(ext.platform))
  /\ ext.attempts = SubSeq(Available(ext.platform), 1, Len(ext.attempts))
  /\ \A i \in 1..(Len(ext.attempts) - 1) : ~ext.would[ext.attempts[i]]
  /\ ext.pc \in Tools
       => /\ Len(ext.attempts) < Len(Available(ext.platform))
          /\ ext.pc = Available(ext.platform)[Len(ext.attempts) + 1]
          /\ \A i \in 1..Len(ext.attempts) : ~ext.would[ext.attempts[i]]

C15_Witness ==
  /\ ext.pc = "ok" /\ ext.platform = "darwin"
  /\ ext.attempts = <<"ditto", "tar", "unzip">>
  /\ ext.would["python"]

\* C16: when every strategy failed, the error extractZip throws carries the
\* error output of each strategy that was attempted.
C16_CompositeDiagnostic ==
  ext.pc = "failed"
    => \A i \in 1..Len(ext.attempts) :
         ext.outputs[i] # "" => \E j \in 1..Len(ext.message) : ext.message[j] = ext.outputs[i]

\* Paths a step removes, and paths it adds or rewrites.
Removed == (dirs \ dirs') \cup (DOMAIN files \ DOMAIN files')
Written ==
  (dirs' \ dirs) \cup {p \in DOMAIN files' : p \notin DOMAIN files \/ files'[p] # files[p]}
InCache(p) == IsPrefix(BaseModelsDir, p)

\* C17: downloadBaseModel on a base model whose directory
\* base_models/<baseModelId> exists returns that path, starts no download
\* and no extraction, and leaves everything under base_models as it was.
C17_CacheHitIsNoOp ==
  /\ [](\A t \in TaskIds :
          tasks[t].cache = "hit"
            => /\ tasks[t].basePath = BaseDirOf(tasks[t].base)
               /\ tasks[t].pc \notin {"curl", "baseValidate", "baseUnzip", "baseRmZip"})
  /\ [][
       \A t \in TaskIds :
         (/\ tasks[t].pc = "detect"
          /\ tasks'[t].mtype = "lora"
          /\ tasks'[t].base # ""
          /\ BaseDirOf(tasks'[t].base) \in dirs)
           => /\ tasks'[t].cache = "hit"
              /\ tasks'[t].basePath = BaseDirOf(tasks'[t].base)
              /\ tasks'[t].pc = "build"
              /\ \A p \in Removed \cup Written : ~InCache(p)
              /\ extracted' = extracted
     ]_vars

C17_Witness ==
  \E t \in TaskIds :
    /\ tasks[t].cache = "hit" /\ tasks[t].pc = "build"
    /\ tasks[t].basePath = BaseDirOf(BaseName)
    /\ BaseDirOf(BaseName) \in dirs

\* The cache directory of b has been resolved: a download into it was
\* completed, or an import got a cache hit on it.
Resolved(b) ==
  \/ BaseDirOf(b) \in extracted
  \/ \E t \in TaskIds : tasks[t].cache = "hit" /\ tasks[t].base = b
OwnPath(t, p) ==
  IsPrefix(ExtractDirOf(tasks[t].id), p) \/ IsPrefix(ModelfileDirOf(tasks[t].id), p)

\* C18: no step of an import, successful or failed at any stage, removes
\* anything at or below a resolved base_models/<b>; the cleanup an import
\* runs removes only paths at or below its own extraction directory and its
\* own Modelfile directory.
C18_ImportKeepsResolvedBase ==
  [][
    /\ Resolved(BaseName) => \A p \in Removed : ~IsPrefix(BaseDirOf(BaseName), p)
    /\ \A t \in TaskIds :
         (tasks[t].pc \in {"rmExtract", "rmModelfile", "finalRm"} /\ tasks'[t] # tasks[t])
           => \A p \in Removed : OwnPath(t, p)
  ]_vars

C18_Witness ==
  /\ BaseDirOf(BaseName) \in dirs /\ Resolved(BaseName)
  /\ \E t \in TaskIds :
       /\ tasks[t].pc = "failed" /\ tasks[t].failStage = "create"
       /\ tasks[t].mtype = "lora"
       /\ ~ExistsSync(ExtractDirOf(tasks[t].id))

\* The directory a tree's markers are looked for in, when every
\* subdirectory counts and when only those ls lists (names that do not
\* begin with a dot) count.
Subdirectories(dir) == {d \in dirs : Len(d) = Len(dir) + 1 /\ IsPrefix(dir, d)}
VisibleSubdirectories(dir) == {d \in Subdirectories(dir) : d[Len(d)] \notin HiddenNames}
SingleOr(S, dir) == IF Cardinality(S) = 1 THEN CHOOSE d \in S : TRUE ELSE dir
AdapterConfigIn(dir) == Join(dir, "adapter_config.json")
Detected(t) == tasks[t].pc # "detect" /\ InStages(tasks[t], "detect")
LastOf(tokens) == IF tokens[Len(tokens)] = "/" THEN "" ELSE tokens[Len(tokens)]

\* C19: when the directory detectModelType checks holds an
\* adapter_config.json that parses and declares a non-empty
\* base_model_name_or_path, the result is lora with baseModel the last
\* "/"-separated segment of the declared value.
C19_BaseIsLastSegment ==
  \A t \in TaskIds :
    LET acfg == AdapterConfigIn(SingleOr(VisibleSubdirectories(ExtractDirOf(tasks[t].id)),
                                         ExtractDirOf(tasks[t].id)))
    IN (/\ Detected(t)
        /\ acfg \in DOMAIN files
        /\ files[acfg].json
        /\ files[acfg].base # <<>>)
         => /\ tasks[t].mtype = "lora"
            /\ tasks[t].base = LastOf(files[acfg].base)

C19_Witness ==
  \E t \in TaskIds :
    /\ Detected(t)
    /\ tasks[t].mtype = "lora" /\ tasks[t].base = "base-7b"
    /\ \E p \in DOMAIN files :
         /\ IsPrefix(ExtractDirOf(tasks[t].id), p)
         /\ files[p].base = <<"/", "x", "/", "y", "/", "base-7b">>

WeightFilesOf(t) ==
  {f \in DOMAIN files : IsPrefix(ExtractDirOf(tasks[t].id), f) /\ f[Len(f)] \in WeightNames}
Built(t) == tasks[t].pc = "create" /\ InStages(tasks[t], "build")

\* C21: for a full model all of whose weight files lie in the subdirectory
\* weights of modelPath, the Modelfile createModelfile writes holds the one
\* directive FROM modelPath/weights.
C21_FromIsWeightsDirectory ==
  \A t \in TaskIds :
    LET weights == Join(ExtractDirOf(tasks[t].id), "weights")
    IN (/\ Built(t)
        /\ tasks[t].mtype = "full"
        /\ WeightFilesOf(t) # {}
        /\ \A f \in WeightFilesOf(t) : Dirname(f) = weights)
         => /\ Modelfile(tasks[t].id) \in DOMAIN files
            /\ files[Modelfile(tasks[t].id)] = ModelfileContent(weights, <<>>)

\* The config.json files createModelfile may copy for base model path b:
\* the one in b, or the one in the single subdirectory of b.
BaseConfigs(b) ==
  {Join(b, "config.json")}
    \cup (IF Cardinality(Subdirectories(b)) = 1
            THEN {Join(d, "config.json") : d \in Subdirectories(b)} ELSE {})
FromPaths(b) == IF Cardinality(Subdirectories(b)) = 1 THEN Subdirectories(b) ELSE {b}

\* C22: in the step in which createModelfile completes for a lora model
\* whose base model, or its single subdirectory, has a config.json: the
\* adapter directory has a config.json afterwards; one that was there is
\* left as it was, otherwise it is a copy of the base model's; a second
\* build would copy nothing; the Modelfile holds FROM the base path and
\* ADAPTER the adapter path; nothing at or below base_models changes.
C22_LoraBuild ==
  [][
    \A t \in TaskIds :
      LET a == Join(tasks[t].adapterPath, "config.json")
          b == tasks[t].basePath
      IN (/\ tasks[t].pc = "build" /\ tasks'[t].pc = "create"
          /\ tasks[t].mtype = "lora"
          /\ \E c \in BaseConfigs(b) : c \in DOMAIN files)
           => /\ a \in DOMAIN files'
              /\ a \in DOMAIN files => files'[a] = files[a]
              /\ a \notin DOMAIN files => \E c \in BaseConfigs(b) : c \in DOMAIN files /\ files'[a] = files[c]
              /\ (LoraConfigSource(b, tasks[t].adapterPath) = <<>>)'
              /\ files'[Modelfile(tasks[t].id)].from \in FromPaths(b)
              /\ files'[Modelfile(tasks[t].id)].adapter = tasks[t].adapterPath
              /\ \A p \in Removed \cup Written : ~InCache(p)
  ]_vars

C22_Witness ==
  \E t \in TaskIds :
    /\ Built(t) /\ tasks[t].mtype = "lora"
    /\ tasks[t].adapterPath = Join(ExtractDirOf(tasks[t].id), "wrap")
    /\ Join(tasks[t].basePath, "config.json") \notin DOMAIN files
    /\ Join(tasks[t].adapterPath, "config.json") \in DOMAIN files
    /\ files[Join(tasks[t].adapterPath, "config.json")] = Plain
    /\ files[Modelfile(tasks[t].id)].from = Join(tasks[t].basePath, "snapshot")

\* C23: the chunk indices stored in the staging directory of an upload
\* session lie in 0..totalChunks-1: none is negative, and none is at or
\* above the totalChunks the session is completed with.
C23_StoredIndicesInRange ==
  /\ \A k \in DOMAIN upl.staged : k >= 0
  /\ upl.pc # "idle" => DOMAIN upl.before \subseteq 0..(upl.total - 1)

\* C24: a delete of a ready model whose alias the runtime does not hold
\* (ollama rm exits non-zero, "not found") goes on as if ollama rm had
\* succeeded: the record is removed, and unless a file removal itself
\* failed the answer is 200 and neither the archive nor the extraction
\* directory is left.
C24_DeleteToleratesNotFound ==
  \A d \in DelIds :
    (dels[d].pc = "done" /\ dels[d].rmIssued /\ ~dels[d].held)
      => /\ ~dels[d].recLeft
         /\ dels[d].resp \in {200, 500}
         /\ dels[d].resp = 200 => (~dels[d].zipLeft /\ ~dels[d].dirLeft)

\* C25: a record that is ready stays ready as long as it exists (no later
\* step of its import changes the status again), a record becomes ready
\* only from importing, and the record of an import that has failed does
\* not become ready.
C25_ReadyIsFinal ==
  [][
    \A m \in ModelIds :
      (records[m].present /\ records'[m].present)
        => /\ StatusOf(records[m]) = "ready" => StatusOf(records'[m]) = "ready"
           /\ (\E t \in TaskIds : tasks[t].id = m /\ tasks[t].pc = "failed")
                => StatusOf(records'[m]) # "ready"
  ]_vars

\* C26: a cleanup rm -rf that fails does not throw: the import does not
\* end on the error of the rm (rmFailed records that it did), the cleanup
\* that follows it in the same catch block still runs, and the record is
\* set to not downloaded when the import ends.
C26_CleanupFailureDoesNotRaise ==
  [][
    \A t \in TaskIds :
      (tasks[t].pc \in {"rmExtract", "rmModelfile"} /\ tasks'[t] # tasks[t])
        => /\ tasks'[t].rmFailed = tasks[t].rmFailed
           /\ (/\ tasks[t].pc = "rmExtract"
               /\ tasks[t].site = "create"
               /\ ExistsSync(ModelfileDirOf(tasks[t].id)))
                => tasks'[t].pc = "rmModelfile"
           /\ (tasks'[t].pc = "failed" /\ records'[tasks[t].id].present)
                => ~records'[tasks[t].id].downloaded
  ]_vars

\* C27: when a delete of a model that was still importing has answered 200
\* and the import task of that model has finished, the runtime holds no
\* model this import created under the record's alias, and the extraction
\* directory models/<modelId> is not on disk.
C27_DeleteDuringImportLeavesNoOrphan ==
  \A d \in DelIds : \A t \in TaskIds :
    (/\ dels[d].id = tasks[t].id
     /\ dels[d].pc = "done" /\ dels[d].resp = 200 /\ dels[d].was = "importing"
     /\ tasks[t].pc \in {"done", "failed"}
     /\ tasks[t].failStage # "finalize")
      => /\ ~ExistsSync(ExtractDirOf(tasks[t].id))
         /\ ~(tasks[t].exit = 0 /\ tasks[t].alias \in ollama)

\* C28: no import gets a cache hit on a base-model directory while another
\* import is still unzipping the base archive into it.
C28_NoHitWhileExtracting ==
  \A t \in TaskIds : tasks[t].cache = "hit" => tasks[t].hitOn # "extracting"

\* C29: the ollama rm of a delete of model A leaves in the runtime the
\* alias of every other model B that is ready and whose alias the runtime
\* held, also when A and B have the same alias.
C29_DeleteKeepsOtherAliases ==
  [][
    \A d \in DelIds : \A b \in ModelIds :
      (/\ dels[d].pc = "ollamaRm" /\ dels'[d].pc # "ollamaRm"
       /\ b # dels[d].id
       /\ records[b].present /\ records[b].downloaded
       /\ records[b].alias \in ollama)
        => /\ records'[b].present /\ records'[b].downloaded
           /\ records[b].alias \in ollama'
  ]_vars

\* C30: as long as no delete has been issued for a model, a ready record
\* has its extraction directory on disk, an import of it whose ollama
\* create exited 0, and that import is about to remove the Modelfile
\* directory or has finished with the directory gone.
C30_ReadyImpliesArtifacts ==
  \A m \in ModelIds :
    (records[m].present /\ StatusOf(records[m]) = "ready" /\ ~DeleteIssued(m))
      => /\ ExtractDirOf(m) \in dirs
         /\ \E t \in TaskIds :
              /\ tasks[t].id = m
              /\ tasks[t].exit = 0 /\ InStages(tasks[t], "create")
              /\ tasks[t].pc \in {"finalRm", "done"}
              /\ tasks[t].pc = "done" => ~ExistsSync(ModelfileDirOf(m))

C30_Witness ==
  \E t \in TaskIds :
    /\ tasks[t].pc = "done" /\ tasks[t].mtype = "lora"
    /\ StatusOf(records[tasks[t].id]) = "ready" /\ records[tasks[t].id].present
    /\ ~DeleteIssued(tasks[t].id)
    /\ ExtractDirOf(tasks[t].id) \in dirs
    /\ ~ExistsSync(ModelfileDirOf(tasks[t].id))

====
